---- MODULE Spec2Model ----
(***************************************************************************)
(* A model of the CronBeats Node SDK ping client: src/src/PingClient.ts,   *)
(* src/src/errors.ts and the fetch transport (http.ts).                    *)
(*                                                                         *)
(* JavaScript strings are TLA+ strings (Len, \o and SubSeq act on them),   *)
(* so the job key pattern, the message slice and the path templates are    *)
(* computed character by character.  JavaScript values whose type the code *)
(* inspects (typeof, ??, instanceof) are records tagged by a field t.      *)
(***************************************************************************)
EXTENDS Integers, Sequences, FiniteSets, TLC

VARIABLES client, call

vars == <<client, call>>

(***************************************************************************)
(* Bounds of the model.                                                    *)
(***************************************************************************)
\* the largest maxRetries option a constructed client is given
MaxRetriesBound == 2

(***************************************************************************)
(* JavaScript values.                                                      *)
(***************************************************************************)
Undefined == [t |-> "undefined"]
Null == [t |-> "null"]
Str(s) == [t |-> "string", v |-> s]
\* a finite number n/d, and the non-finite numbers
Num(n, d) == [t |-> "number", k |-> "fin", n |-> n, d |-> d]
NumInt(n) == Num(n, 1)
NaN == [t |-> "number", k |-> "nan", n |-> 0, d |-> 1]
Infinity == [t |-> "number", k |-> "inf", n |-> 1, d |-> 1]
NegInfinity == [t |-> "number", k |-> "inf", n |-> -1, d |-> 1]
Bool(b) == [t |-> "boolean", v |-> b]
\* a plain object: a function from its own keys to values
Obj(f) == [t |-> "object", v |-> f]
Arr(s) == [t |-> "array", v |-> s]
EmptyFields == [k \in {} |-> Undefined]

\* typeof x
TypeOf(x) ==
  CASE x.t \in {"null", "array", "error"} -> "object"
    [] OTHER -> x.t

\* x ?? d
Coalesce(x, d) == IF x.t \in {"undefined", "null"} THEN d ELSE x

\* obj.key for a parsed value (an array has no such own property)
Get(obj, key) ==
  IF obj.t = "object" /\ key \in DOMAIN obj.v THEN obj.v[key] ELSE Undefined

\* mutant: Number.isFinite in the place of Number.isInteger
IsIntegerFiniteOnly(x) == x.t = "number" /\ x.k = "fin"

\* Number.isInteger(x)
IsInteger(x) == x.t = "number" /\ x.k = "fin" /\ x.n % x.d = 0

\* x < 0 for a number x
IsNegative(x) == x.t = "number" /\ x.k # "nan" /\ x.n < 0

(***************************************************************************)
(* Strings.                                                                *)
(***************************************************************************)
CharAt(s, i) == SubSeq(s, i, i)

Digits == {"0", "1", "2", "3", "4", "5", "6", "7", "8", "9"}
Lower == {"a", "b", "c", "d", "e", "f", "g", "h", "i", "j", "k", "l", "m",
          "n", "o", "p", "q", "r", "s", "t", "u", "v", "w", "x", "y", "z"}
Upper == {"A", "B", "C", "D", "E", "F", "G", "H", "I", "J", "K", "L", "M",
          "N", "O", "P", "Q", "R", "S", "T", "U", "V", "W", "X", "Y", "Z"}
\* the character class [a-zA-Z0-9]
Base62 == Lower \cup Upper \cup Digits

DigitChar(d) ==
  CASE d = 0 -> "0" [] d = 1 -> "1" [] d = 2 -> "2" [] d = 3 -> "3"
    [] d = 4 -> "4" [] d = 5 -> "5" [] d = 6 -> "6" [] d = 7 -> "7"
    [] d = 8 -> "8" [] d = 9 -> "9"

RECURSIVE NatToString(_)
NatToString(n) ==
  IF n < 10 THEN DigitChar(n) ELSE NatToString(n \div 10) \o DigitChar(n % 10)

\* `${x}` for an integral number x (below 10^21, where the decimal form is used)
NumberToString(x) ==
  IF x.n < 0 THEN "-" \o NatToString((0 - x.n) \div x.d)
  ELSE NatToString(x.n \div x.d)

\* s.slice(0, n + 1): one character more than the limit
Slice0OneMore(s, n) == IF Len(s) > n + 1 THEN SubSeq(s, 1, n + 1) ELSE s

\* s.slice(0, n)
Slice0(s, n) == IF Len(s) > n THEN SubSeq(s, 1, n) ELSE s

RECURSIVE StripTrailingSlashes(_)
\* s.replace(/\/+$/, "")
StripTrailingSlashes(s) ==
  IF Len(s) > 0 /\ CharAt(s, Len(s)) = "/"
  THEN StripTrailingSlashes(SubSeq(s, 1, Len(s) - 1))
  ELSE s

\* one character of a JSON string literal, as JSON.stringify writes it
JsonEscapeChar(c) ==
  CASE c = "\"" -> "\\\""
    [] c = "\\" -> "\\\\"
    [] c = "\n" -> "\\n"
    [] OTHER -> c

RECURSIVE JsonEscape(_)
\* the characters of s, each escaped (the string is halved to keep the
\* evaluation shallow; the result is the left-to-right concatenation)
JsonEscape(s) ==
  IF Len(s) = 0 THEN ""
  ELSE IF Len(s) = 1 THEN JsonEscapeChar(s)
  ELSE LET h == Len(s) \div 2
       IN  JsonEscape(SubSeq(s, 1, h)) \o JsonEscape(SubSeq(s, h + 1, Len(s)))

(***************************************************************************)
(* errors.ts: the two error classes.  An error object is tagged "error";   *)
(* class is the constructor it is an instance of.                          *)
(***************************************************************************)
ValidationError(message) ==
  [t |-> "error", class |-> "ValidationError", message |-> message]

\* mutant: the constructor forgets the HTTP status
ApiErrorNoStatus(args) ==
  [t |-> "error", class |-> "ApiError",
   message |-> args.message,
   code |-> args.code,
   httpStatus |-> Null,
   retryable |-> IF "retryable" \in DOMAIN args THEN args.retryable ELSE FALSE,
   raw |-> IF "raw" \in DOMAIN args THEN Coalesce(args.raw, Null) ELSE Null]

\* new ApiError(args): args is a record holding the fields that were given
ApiError(args) ==
  [t |-> "error", class |-> "ApiError",
   message |-> args.message,
   code |-> args.code,
   httpStatus |-> IF "httpStatus" \in DOMAIN args
                  THEN Coalesce(args.httpStatus, Null) ELSE Null,
   retryable |-> IF "retryable" \in DOMAIN args THEN args.retryable ELSE FALSE,
   raw |-> IF "raw" \in DOMAIN args THEN Coalesce(args.raw, Null) ELSE Null]

\* an instance of a built-in Error class (TypeError, AbortError, ...)
ErrorObj(class, message) == [t |-> "error", class |-> class, message |-> message]

IsError(x) == x.t = "error"
IsApiError(x) == x.t = "error" /\ x.class = "ApiError"

\* how an evaluation completes: normally with a value, or by throwing
Return(v) == [kind |-> "return", value |-> v]
Throw(e) == [kind |-> "throw", err |-> e]

(***************************************************************************)
(* http.ts: the transport contract and the fetch transport.                *)
(***************************************************************************)
\* an HttpResponse; its headers, which the client never reads, are left out
HttpResponse(status, body) == [status |-> status, body |-> body]

\* FetchHttpClient.request, given how fetch itself completed
FetchHttpClientRequest(fetched) ==
  IF fetched.kind = "return"
  THEN Return(HttpResponse(fetched.value.status, fetched.value.body))
  ELSE Throw(ApiError([code |-> "NETWORK_ERROR",
                       message |-> IF IsError(fetched.err)
                                   THEN fetched.err.message ELSE "Network error",
                       retryable |-> TRUE,
                       raw |-> fetched.err]))

(***************************************************************************)
(* PingClient.ts: the pure helpers.                                        *)
(***************************************************************************)
\* mutant: the pattern without its closing anchor, /^[a-zA-Z0-9]{8}/
JobKeyPatternUnanchored(jobKey) ==
  Len(jobKey) >= 8 /\ \A i \in 1..8 : CharAt(jobKey, i) \in Base62

\* /^[a-zA-Z0-9]{8}$/.test(jobKey)
JobKeyPattern(jobKey) ==
  Len(jobKey) = 8 /\ \A i \in 1..8 : CharAt(jobKey, i) \in Base62

assertJobKey(jobKey) ==
  IF ~JobKeyPattern(jobKey)
  THEN Throw(ValidationError("jobKey must be exactly 8 Base62 characters."))
  ELSE Return(Undefined)

\* mutant: the server-error range starts one status late
mapErrorAbove500(status) ==
  IF status = 400 THEN [code |-> "VALIDATION_ERROR", retryable |-> FALSE]
  ELSE IF status = 404 THEN [code |-> "NOT_FOUND", retryable |-> FALSE]
  ELSE IF status = 429 THEN [code |-> "RATE_LIMITED", retryable |-> TRUE]
  ELSE IF status > 500 THEN [code |-> "SERVER_ERROR", retryable |-> TRUE]
  ELSE [code |-> "UNKNOWN_ERROR", retryable |-> FALSE]

mapError(status) ==
  IF status = 400 THEN [code |-> "VALIDATION_ERROR", retryable |-> FALSE]
  ELSE IF status = 404 THEN [code |-> "NOT_FOUND", retryable |-> FALSE]
  ELSE IF status = 429 THEN [code |-> "RATE_LIMITED", retryable |-> TRUE]
  ELSE IF status >= 500 THEN [code |-> "SERVER_ERROR", retryable |-> TRUE]
  ELSE [code |-> "UNKNOWN_ERROR", retryable |-> FALSE]

\* the response bodies the model's servers send
BodyPingOk ==
  "{\"status\":\"success\",\"message\":\"OK\",\"action\":\"ping\",\"job_key\":\"abc123de\",\"timestamp\":\"2026-02-25 12:00:00\",\"processing_time_ms\":8.25}"
BodyNotFound == "{\"status\":\"error\",\"message\":\"Job not found\"}"
BodyRateLimited == "{\"status\":\"error\",\"message\":\"Too many requests\"}"
BodyMessageNotString == "{\"status\":\"error\",\"message\":42}"
BodyEmptyObject == "{}"
BodyHtml == "<html>Bad Gateway</html>"
BodyEmpty == ""
BodyJsonNull == "null"
BodyJsonArray == "[1]"
BodyWrongTypes ==
  "{\"action\":1,\"job_key\":null,\"timestamp\":5,\"processing_time_ms\":\"abc\",\"next_expected\":7}"
BodyOtherJob ==
  "{\"action\":\"pong\",\"job_key\":\"ZZZZ9999\",\"timestamp\":\"t\",\"processing_time_ms\":\"12\",\"next_expected\":\"2026-02-26 12:00:00\"}"
BodyDurationNull == "{\"processing_time_ms\":null}"
BodyDurationTrue == "{\"processing_time_ms\":true}"

\* JSON.parse(raw) on those bodies: the value, or a SyntaxError
JSONParse(raw) ==
  CASE raw = BodyPingOk ->
         Return(Obj([status |-> Str("success"), message |-> Str("OK"),
                     action |-> Str("ping"), job_key |-> Str("abc123de"),
                     timestamp |-> Str("2026-02-25 12:00:00"),
                     processing_time_ms |-> Num(825, 100)]))
    [] raw = BodyNotFound ->
         Return(Obj([status |-> Str("error"), message |-> Str("Job not found")]))
    [] raw = BodyRateLimited ->
         Return(Obj([status |-> Str("error"), message |-> Str("Too many requests")]))
    [] raw = BodyMessageNotString ->
         Return(Obj([status |-> Str("error"), message |-> NumInt(42)]))
    [] raw = BodyEmptyObject -> Return(Obj(EmptyFields))
    [] raw = BodyJsonNull -> Return(Null)
    [] raw = BodyJsonArray -> Return(Arr(<<NumInt(1)>>))
    [] raw = BodyWrongTypes ->
         Return(Obj([action |-> NumInt(1), job_key |-> Null,
                     timestamp |-> NumInt(5),
                     processing_time_ms |-> Str("abc"),
                     next_expected |-> NumInt(7)]))
    [] raw = BodyOtherJob ->
         Return(Obj([action |-> Str("pong"), job_key |-> Str("ZZZZ9999"),
                     timestamp |-> Str("t"),
                     processing_time_ms |-> Str("12"),
                     next_expected |-> Str("2026-02-26 12:00:00")]))
    [] raw = BodyDurationNull -> Return(Obj([processing_time_ms |-> Null]))
    [] raw = BodyDurationTrue -> Return(Obj([processing_time_ms |-> Bool(TRUE)]))
    [] OTHER -> Throw(ErrorObj("SyntaxError", "Unexpected token"))

\* whether a value is truthy
Truthy(x) ==
  CASE x.t \in {"undefined", "null"} -> FALSE
    [] x.t = "boolean" -> x.v
    [] x.t = "string" -> x.v # ""
    [] x.t = "number" -> x.k = "inf" \/ (x.k = "fin" /\ x.n # 0)
    [] OTHER -> TRUE

\* safeParseJson keeping whatever value JSON.parse returns
safeParseJsonAnyValue(raw) ==
  LET r == JSONParse(raw)
  IN  IF r.kind = "throw" THEN Obj([message |-> Str("Invalid JSON response")])
      ELSE r.value

safeParseJson(raw) ==
  LET r == JSONParse(raw)
  IN  IF r.kind = "throw" THEN Obj([message |-> Str("Invalid JSON response")])
      ELSE IF Truthy(r.value) /\ TypeOf(r.value) = "object" THEN r.value
      ELSE Obj(EmptyFields)

\* Number(x), for the values a decoded body holds
ToNumber(x) ==
  CASE x.t = "number" -> x
    [] x.t = "null" -> NumInt(0)
    [] x.t = "boolean" -> IF x.v THEN NumInt(1) ELSE NumInt(0)
    [] x.t = "string" /\ x.v = "" -> NumInt(0)
    [] x.t = "string" /\ x.v = "12" -> NumInt(12)
    [] x.t = "array" /\ x.v = <<>> -> NumInt(0)
    [] OTHER -> NaN

normalizeSuccess(jobKey, action, payload) ==
  [ok |-> TRUE,
   action |-> IF TypeOf(Get(payload, "action")) = "string"
              THEN Get(payload, "action").v ELSE action,
   jobKey |-> IF TypeOf(Get(payload, "job_key")) = "string"
              THEN Get(payload, "job_key").v ELSE jobKey,
   timestamp |-> IF TypeOf(Get(payload, "timestamp")) = "string"
                 THEN Get(payload, "timestamp").v ELSE "",
   processingTimeMs |->
     IF TypeOf(Get(payload, "processing_time_ms")) = "number"
     THEN Get(payload, "processing_time_ms")
     ELSE ToNumber(Coalesce(Get(payload, "processing_time_ms"), NumInt(0))),
   nextExpected |-> IF TypeOf(Get(payload, "next_expected")) = "string"
                    THEN Get(payload, "next_expected") ELSE Null,
   raw |-> payload]

(***************************************************************************)
(* PingClient.ts: the constructor.                                         *)
(***************************************************************************)
DefaultBaseUrl == "https://cronbeats.io"
DefaultTimeoutMs == 5000
DefaultMaxRetries == 2
DefaultRetryBackoffMs == 250
DefaultRetryJitterMs == 100
DefaultUserAgent == "cronbeats-node-sdk/0.1.0"

\* options.name ?? default: options is a record of the options that were given
Opt(options, name, default) ==
  IF name \in DOMAIN options THEN options[name] ELSE default

NoClient == [st |-> "none"]

\* new PingClient(jobKey, options): the client, or the error the constructor throws
NewPingClient(jobKey, options) ==
  LET checked == assertJobKey(jobKey)
  IN  IF checked.kind = "throw"
      THEN [st |-> "failed", rejected |-> jobKey, error |-> checked.err]
      ELSE [st |-> "ok",
            jobKey |-> jobKey,
            baseUrl |-> StripTrailingSlashes(Opt(options, "baseUrl", DefaultBaseUrl)),
            timeoutMs |-> Opt(options, "timeoutMs", DefaultTimeoutMs),
            maxRetries |-> Opt(options, "maxRetries", DefaultMaxRetries),
            retryBackoffMs |-> Opt(options, "retryBackoffMs", DefaultRetryBackoffMs),
            retryJitterMs |-> Opt(options, "retryJitterMs", DefaultRetryJitterMs),
            userAgent |-> Opt(options, "userAgent", DefaultUserAgent)]

(***************************************************************************)
(* PingClient.ts: request, the attempt loop.  A call is                    *)
(*   idle      not invoked yet                                             *)
(*   awaiting  suspended at await this.httpClient.request(...)             *)
(*   sleeping  suspended at await this.sleepWithBackoff(attempt)           *)
(*   done      returned or thrown (result)                                 *)
(* sent lists the arguments of every transport request of the call,        *)
(* outcomes how each of them completed, waits every backoff delay.         *)
(***************************************************************************)
NoResult == [kind |-> "none"]
Continue == [kind |-> "continue"]

IdleCall ==
  [pc |-> "idle", op |-> [name |-> "none", args |-> <<>>], action |-> "", url |-> "", payload |-> Undefined,
   attempt |-> 0, sent |-> <<>>, outcomes |-> <<>>, waits |-> <<>>,
   result |-> NoResult]

\* JSON.stringify(body) for the bodies request is given: {} or {message: string}
JSONStringify(body) ==
  IF "message" \in DOMAIN body
  THEN "{\"message\":\"" \o JsonEscape(body.message.v) \o "\"}"
  ELSE "{}"

\* the argument of this.httpClient.request with a timeout that grows with
\* the attempt
HttpArgsTimeoutPerAttempt(cl, cs) ==
  [method |-> "POST",
   url |-> cs.url,
   headers |-> [contentType |-> "application/json",
                accept |-> "application/json",
                userAgent |-> cl.userAgent],
   body |-> cs.payload,
   timeoutMs |-> cl.timeoutMs * (cs.attempt + 1)]

\* the argument of this.httpClient.request
HttpArgs(cl, cs) ==
  [method |-> "POST",
   url |-> cs.url,
   headers |-> [contentType |-> "application/json",
                accept |-> "application/json",
                userAgent |-> cl.userAgent],
   body |-> cs.payload,
   timeoutMs |-> cl.timeoutMs]

\* one pass through the head of the loop: the transport request is issued
IssueRequest(cl, cs) ==
  [cs EXCEPT !.pc = "awaiting", !.sent = Append(cs.sent, HttpArgs(cl, cs))]

\* request serialising its body even where the body has no member
requestAlwaysWithBody(cl, op, action, path, body) ==
  IssueRequest(cl, [IdleCall EXCEPT !.op = op, !.action = action,
                                    !.url = cl.baseUrl \o path,
                                    !.payload = Str(JSONStringify(body)),
                                    !.attempt = 0])

\* request(action, path, body) up to its first await
request(cl, op, action, path, body) ==
  LET url == cl.baseUrl \o path
      payload == IF DOMAIN body = {} THEN Undefined ELSE Str(JSONStringify(body))
  IN  IssueRequest(cl, [IdleCall EXCEPT !.op = op, !.action = action,
                                        !.url = url, !.payload = payload,
                                        !.attempt = 0])

\* a public method that throws before any request
Thrown(op, err) == [IdleCall EXCEPT !.pc = "done", !.op = op, !.result = Throw(err)]

RECURSIVE Pow2(_)
Pow2(n) == IF n <= 0 THEN 1 ELSE 2 * Pow2(n - 1)

Max(a, b) == IF a >= b THEN a ELSE b

\* the delay of a backoff whose base part is the same for every attempt
sleepWithBackoffConstantBase(cl, attempt, random) ==
  cl.retryBackoffMs + (random[1] * Max(1, cl.retryJitterMs + 1)) \div random[2]

\* the delay sleepWithBackoff(attempt) sets, Math.random() returning random[1]/random[2]
sleepWithBackoff(cl, attempt, random) ==
  LET base == cl.retryBackoffMs * Pow2(Max(0, attempt - 1))
      jitter == (random[1] * Max(1, cl.retryJitterMs + 1)) \div random[2]
  IN  base + jitter

\* mutant: the lower end of the 2xx range is left out
IsSuccessStatusAbove200(status) == status > 200 /\ status < 300

\* line 127: a 2xx status
IsSuccessStatus(status) == status >= 200 /\ status < 300

\* mutant: the retry test forgets the classification
RetryAfterStatusAny(mapped, attempt, maxRetries) == attempt < maxRetries

\* mutant: the retry test allows one retry too many
RetryAfterStatusLate(mapped, attempt, maxRetries) ==
  mapped.retryable /\ attempt <= maxRetries

\* line 134: retry after a response
RetryAfterStatus(mapped, attempt, maxRetries) ==
  mapped.retryable /\ attempt < maxRetries

\* mutant: one more attempt is allowed after a failed transport call
RetriesExhaustedLate(attempt, maxRetries) == attempt > maxRetries

\* line 152: no attempt is left after a failed transport call
RetriesExhausted(attempt, maxRetries) == attempt >= maxRetries

\* the try block once the transport has returned res
TryBlock(cl, cs, res) ==
  LET parsed == safeParseJson(res.body)
      mapped == mapError(res.status)
      msg == IF TypeOf(Get(parsed, "message")) = "string"
             THEN Get(parsed, "message").v ELSE "Request failed"
  IN  IF IsSuccessStatus(res.status)
      THEN Return(normalizeSuccess(cl.jobKey, cs.action, parsed))
      ELSE IF RetryAfterStatus(mapped, cs.attempt, cl.maxRetries)
      THEN Continue
      ELSE Throw(ApiError([code |-> mapped.code,
                           httpStatus |-> NumInt(res.status),
                           retryable |-> mapped.retryable,
                           message |-> msg,
                           raw |-> parsed]))

\* mutant: the catch block lacks its first test, so that the failure the try
\* block raised for a response is retried like a network error
CatchBlockRetriesAll(cl, cs, err) ==
  IF RetriesExhausted(cs.attempt, cl.maxRetries)
  THEN IF IsApiError(err)
       THEN Throw(err)
       ELSE Throw(ApiError([code |-> "NETWORK_ERROR",
                            retryable |-> TRUE,
                            message |-> IF IsError(err)
                                        THEN err.message ELSE "Network error",
                            raw |-> err]))
  ELSE Continue

\* the catch block going by the retryable flag of a Remote failure in the
\* place of its code
CatchBlockByRetryableFlag(cl, cs, err) ==
  IF IsApiError(err) /\ ~err.retryable
  THEN Throw(err)
  ELSE IF RetriesExhausted(cs.attempt, cl.maxRetries)
  THEN IF IsApiError(err)
       THEN Throw(err)
       ELSE Throw(ApiError([code |-> "NETWORK_ERROR",
                            retryable |-> TRUE,
                            message |-> IF IsError(err)
                                        THEN err.message ELSE "Network error",
                            raw |-> err]))
  ELSE Continue

\* the catch block, given what the try block threw
CatchBlock(cl, cs, err) ==
  IF IsApiError(err) /\ err.code # "NETWORK_ERROR"
  THEN Throw(err)
  ELSE IF RetriesExhausted(cs.attempt, cl.maxRetries)
  THEN IF IsApiError(err)
       THEN Throw(err)
       ELSE Throw(ApiError([code |-> "NETWORK_ERROR",
                            retryable |-> TRUE,
                            message |-> IF IsError(err)
                                        THEN err.message ELSE "Network error",
                            raw |-> err]))
  ELSE Continue

\* one iteration of the loop from the point the transport call completed
LoopBody(cl, cs, outcome) ==
  IF outcome.kind = "throw"
  THEN CatchBlock(cl, cs, outcome.err)
  ELSE LET t == TryBlock(cl, cs, outcome.value)
       IN  IF t.kind = "throw" THEN CatchBlock(cl, cs, t.err) ELSE t

(***************************************************************************)
(* PingClient.ts: the public methods, each up to its first await (the      *)
(* first transport request is issued before the method's promise is        *)
(* handed back) or to the exception it throws.                             *)
(***************************************************************************)
MaxMessageLength == 255

Invocation(name, args) == [name |-> name, args |-> args]

pingCall(cl) ==
  request(cl, Invocation("ping", <<>>), "ping", "/ping/" \o cl.jobKey, EmptyFields)

startCall(cl) ==
  request(cl, Invocation("start", <<>>), "start",
          "/ping/" \o cl.jobKey \o "/start", EmptyFields)

\* mutant: only the type of the status is validated
endCallAnyString(cl, op, given) ==
  LET status == IF given.t = "undefined" THEN Str("success") ELSE given
  IN  IF status.t # "string"
      THEN Thrown(op, ValidationError("Status must be \"success\" or \"fail\"."))
      ELSE request(cl, op, "end",
                   "/ping/" \o cl.jobKey \o "/end/" \o status.v, EmptyFields)

\* end(status) as invoked by op; an undefined status takes the default "success"
endCall(cl, op, given) ==
  LET status == IF given.t = "undefined" THEN Str("success") ELSE given
  IN  IF status # Str("success") /\ status # Str("fail")
      THEN Thrown(op, ValidationError("Status must be \"success\" or \"fail\"."))
      ELSE request(cl, op, "end",
                   "/ping/" \o cl.jobKey \o "/end/" \o status.v, EmptyFields)

\* progress taking its message from the second argument alone
progressCallSecondArgumentOnly(cl, given, message) ==
  LET op == Invocation("progress", <<given, message>>)
      seqOrOptions == IF given.t = "undefined" THEN Null ELSE given
      msg0 == Coalesce(message, Str(""))
      isNumber == TypeOf(seqOrOptions) = "number"
      isObject == Truthy(seqOrOptions) /\ TypeOf(seqOrOptions) = "object"
      seq == IF isNumber THEN seqOrOptions
             ELSE IF isObject
             THEN IF TypeOf(Get(seqOrOptions, "seq")) = "number"
                  THEN Get(seqOrOptions, "seq") ELSE Null
             ELSE Null
      msg == msg0
      safeMsg == Slice0(Coalesce(msg, Str("")).v, MaxMessageLength)
  IN  IF seq # Null /\ (~IsInteger(seq) \/ IsNegative(seq))
      THEN Thrown(op, ValidationError("Progress seq must be a non-negative integer."))
      ELSE IF seq # Null
      THEN request(cl, op, "progress",
                   "/ping/" \o cl.jobKey \o "/progress/" \o NumberToString(seq),
                   [message |-> Str(safeMsg)])
      ELSE request(cl, op, "progress",
                   "/ping/" \o cl.jobKey \o "/progress",
                   [message |-> Str(safeMsg)])

progressCall(cl, given, message) ==
  LET op == Invocation("progress", <<given, message>>)
      seqOrOptions == IF given.t = "undefined" THEN Null ELSE given
      msg0 == Coalesce(message, Str(""))
      isNumber == TypeOf(seqOrOptions) = "number"
      isObject == Truthy(seqOrOptions) /\ TypeOf(seqOrOptions) = "object"
      seq == IF isNumber THEN seqOrOptions
             ELSE IF isObject
             THEN IF TypeOf(Get(seqOrOptions, "seq")) = "number"
                  THEN Get(seqOrOptions, "seq") ELSE Null
             ELSE Null
      msg == IF ~isNumber /\ isObject
             THEN Coalesce(Get(seqOrOptions, "message"), msg0) ELSE msg0
      safeMsg == Slice0(Coalesce(msg, Str("")).v, MaxMessageLength)
  IN  IF seq # Null /\ (~IsInteger(seq) \/ IsNegative(seq))
      THEN Thrown(op, ValidationError("Progress seq must be a non-negative integer."))
      ELSE IF seq # Null
      THEN request(cl, op, "progress",
                   "/ping/" \o cl.jobKey \o "/progress/" \o NumberToString(seq),
                   [message |-> Str(safeMsg)])
      ELSE request(cl, op, "progress",
                   "/ping/" \o cl.jobKey \o "/progress",
                   [message |-> Str(safeMsg)])

(***************************************************************************)
(* The actions.                                                            *)
(***************************************************************************)
Construct(jobKey, options) ==
  /\ client.st = "none"
  /\ client' = NewPingClient(jobKey, options)
  /\ UNCHANGED call

Invoke(c, cs) ==
  /\ client.st = "ok"
  /\ call[c].pc = "idle"
  /\ call' = [call EXCEPT ![c] = cs]
  /\ UNCHANGED client

ping(c) == Invoke(c, pingCall(client))

start(c) == Invoke(c, startCall(client))

end(c, status) == Invoke(c, endCall(client, Invocation("end", <<status>>), status))

success(c) ==
  Invoke(c, endCall(client, Invocation("success", <<>>), Str("success")))

fail(c) == Invoke(c, endCall(client, Invocation("fail", <<>>), Str("fail")))

progress(c, seqOrOptions, message) ==
  Invoke(c, progressCall(client, seqOrOptions, message))

\* the transport call of c completes and, where the loop goes on, the next
\* request is issued without the backoff having been awaited
HttpSettlesNoAwait(c, outcome, random) ==
  LET cs == [call[c] EXCEPT !.outcomes = Append(call[c].outcomes, outcome)]
      r == LoopBody(client, call[c], outcome)
  IN  /\ call[c].pc = "awaiting"
      /\ call' = [call EXCEPT ![c] =
           IF r.kind = "continue"
           THEN IssueRequest(client,
                  [cs EXCEPT !.attempt = cs.attempt + 1,
                             !.waits = Append(cs.waits,
                                sleepWithBackoff(client, cs.attempt + 1, random))])
           ELSE [cs EXCEPT !.pc = "done", !.result = r]]
      /\ UNCHANGED client

\* the transport call of c completes; the attempt counter is one for all
\* the calls of the client
HttpSettlesSharedCounter(c, outcome, random) ==
  LET cs == [call[c] EXCEPT !.outcomes = Append(call[c].outcomes, outcome)]
      r == LoopBody(client, call[c], outcome)
  IN  /\ call[c].pc = "awaiting"
      /\ call' = [d \in DOMAIN call |->
           IF d # c
           THEN IF r.kind = "continue"
                THEN [call[d] EXCEPT !.attempt = call[d].attempt + 1]
                ELSE call[d]
           ELSE IF r.kind = "continue"
           THEN [cs EXCEPT !.pc = "sleeping",
                           !.attempt = cs.attempt + 1,
                           !.waits = Append(cs.waits,
                              sleepWithBackoff(client, cs.attempt + 1, random))]
           ELSE [cs EXCEPT !.pc = "done", !.result = r]]
      /\ UNCHANGED client

\* the transport call of c completes with outcome; random is what Math.random()
\* returns should the call go on to sleepWithBackoff
HttpSettles(c, outcome, random) ==
  LET cs == [call[c] EXCEPT !.outcomes = Append(call[c].outcomes, outcome)]
      r == LoopBody(client, call[c], outcome)
  IN  /\ call[c].pc = "awaiting"
      /\ call' = [call EXCEPT ![c] =
           IF r.kind = "continue"
           THEN [cs EXCEPT !.pc = "sleeping",
                           !.attempt = cs.attempt + 1,
                           !.waits = Append(cs.waits,
                              sleepWithBackoff(client, cs.attempt + 1, random))]
           ELSE [cs EXCEPT !.pc = "done", !.result = r]]
      /\ UNCHANGED client

\* the backoff timer of c fires, and the promise the loop awaits is never
\* resolved
TimerFiresUnresolved(c) ==
  /\ call[c].pc = "sleeping"
  /\ call' = [call EXCEPT ![c].pc = "suspended"]
  /\ UNCHANGED client

\* the backoff timer of c fires: the loop issues the next transport request
TimerFires(c) ==
  /\ call[c].pc = "sleeping"
  /\ call' = [call EXCEPT ![c] = IssueRequest(client, call[c])]
  /\ UNCHANGED client

(***************************************************************************)
(* The inputs.                                                             *)
(***************************************************************************)
CallIds == {"c1", "c2"}

JobKeyInputs ==
  {"abc123de", "ABCXYZ09", "abc123d", "abc123def", "abc-23de", "abc123d ",
   "abc123de\n", "", "abc/23de"}

OptionInputs ==
  {[k \in {} |-> 0],
   [maxRetries |-> 0],
   [maxRetries |-> MaxRetriesBound, retryBackoffMs |-> 10, retryJitterMs |-> 0],
   [baseUrl |-> "http://localhost:8080//", timeoutMs |-> 1000,
    maxRetries |-> 1, retryJitterMs |-> -5, userAgent |-> "job/1"]}

EndStatusInputs ==
  {Undefined, Null, Str("success"), Str("fail"), Str("done"), Str("SUCCESS"),
   Str(""), Str("success ")}

RECURSIVE Repeat(_, _)
Repeat(s, n) == IF n = 0 THEN "" ELSE s \o Repeat(s, n - 1)

Text255 == Repeat("0123456789abcde", 17)
Text256 == Text255 \o "X"
Text300 == Text256 \o Repeat("y", 44)

MessageInputs ==
  {Undefined, Str(""), Str("msg"), Str("say \"hi\"\n"), Str(Text255),
   Str(Text256), Str(Text300)}

SeqInputs ==
  {NumInt(0), NumInt(50), NumInt(-1), Num(15, 10), Num(-5, 10), NaN,
   Infinity, NegInfinity}

SeqOrOptionsInputs ==
  {Undefined, Null} \cup SeqInputs
  \cup {Obj([seq |-> n]) : n \in SeqInputs}
  \cup {Obj([seq |-> NumInt(50), message |-> Str("msg")]),
        Obj([seq |-> Num(15, 10), message |-> Str("msg")]),
        Obj([message |-> Str(Text256)]),
        Obj([message |-> Str("only")]),
        Obj(EmptyFields)}

\* Math.random() as a fraction in [0, 1)
RandomDraws == {<<0, 1>>, <<1, 2>>, <<999, 1000>>}

\* how fetch fails
FetchFailures ==
  {ErrorObj("TypeError", "fetch failed"),
   ErrorObj("AbortError", "This operation was aborted")}

\* what an injected transport may throw besides
CustomThrows ==
  {ApiError([code |-> "RATE_LIMITED", message |-> "slow down",
             httpStatus |-> NumInt(429), retryable |-> TRUE]),
   ErrorObj("Error", "socket hang up"),
   Str("boom")}

\* the transport outcomes of the whole-program specification
FewOutcomes ==
  {FetchHttpClientRequest(Return(r)) :
     r \in {HttpResponse(200, BodyPingOk), HttpResponse(404, BodyNotFound),
            HttpResponse(429, BodyRateLimited)}}
  \cup {FetchHttpClientRequest(Throw(ErrorObj("TypeError", "fetch failed")))}

RetryableStatuses == {429, 500, 600}
FinalStatuses == {199, 200, 299, 300, 400, 404, 499}
AllBodies ==
  {BodyPingOk, BodyNotFound, BodyRateLimited, BodyMessageNotString,
   BodyEmptyObject, BodyHtml, BodyEmpty, BodyJsonNull, BodyJsonArray,
   BodyWrongTypes, BodyOtherJob, BodyDurationNull, BodyDurationTrue}

\* the transport outcomes of the retry-loop specification
ManyOutcomes ==
  {FetchHttpClientRequest(Return(HttpResponse(s, b))) :
     s \in FinalStatuses, b \in AllBodies}
  \cup {FetchHttpClientRequest(Return(HttpResponse(s, BodyHtml))) :
          s \in RetryableStatuses}
  \cup {FetchHttpClientRequest(Return(HttpResponse(429, BodyRateLimited)))}
  \cup {FetchHttpClientRequest(Throw(e)) : e \in FetchFailures}
  \cup {Throw(e) : e \in CustomThrows}

(***************************************************************************)
(* The whole program: one client is constructed, one call is made.         *)
(***************************************************************************)
Init ==
  /\ client = NoClient
  /\ call = [c \in CallIds |-> IdleCall]

Next ==
  \/ \E k \in JobKeyInputs, o \in OptionInputs : Construct(k, o)
  \/ ping("c1")
  \/ start("c1")
  \/ \E s \in EndStatusInputs : end("c1", s)
  \/ success("c1")
  \/ fail("c1")
  \/ \E s \in SeqOrOptionsInputs, m \in MessageInputs : progress("c1", s, m)
  \/ \E o \in FewOutcomes, r \in RandomDraws : HttpSettles("c1", o, r)
  \/ TimerFires("c1")

Spec == Init /\ [][Next]_vars

(***************************************************************************)
(* The retry loop: a constructed client, every kind of transport outcome.  *)
(***************************************************************************)
InitRetry ==
  /\ client \in {NewPingClient("abc123de", [maxRetries |-> m, retryJitterMs |-> 0]) :
                   m \in 0..MaxRetriesBound}
  /\ call = [c \in CallIds |-> IdleCall]

NextRetry ==
  \/ ping("c1")
  \/ start("c1")
  \/ \E o \in ManyOutcomes, r \in RandomDraws : HttpSettles("c1", o, r)
  \/ TimerFires("c1")

SpecRetry == InitRetry /\ [][NextRetry]_vars

(***************************************************************************)
(* What the claims speak of: the call c1, its attempts and its outcome.    *)
(***************************************************************************)
TheCall == call["c1"]
Requests == Len(TheCall.sent)
Attempts == Len(TheCall.outcomes)
Raised == TheCall.pc = "done" /\ TheCall.result.kind = "throw"
Returned == TheCall.pc = "done" /\ TheCall.result.kind = "return"

\* attempt i ended with an HTTP response whose status is in S
RespondedIn(i, S) ==
  /\ TheCall.outcomes[i].kind = "return"
  /\ TheCall.outcomes[i].value.status \in S

\* attempt i ended with the transport raising a NETWORK_ERROR Remote failure
FailedNetwork(i) ==
  /\ TheCall.outcomes[i].kind = "throw"
  /\ IsApiError(TheCall.outcomes[i].err)
  /\ TheCall.outcomes[i].err.code = "NETWORK_ERROR"

\* attempt i ended with the transport raising something that is no Remote failure
FailedOther(i) ==
  /\ TheCall.outcomes[i].kind = "throw"
  /\ ~IsApiError(TheCall.outcomes[i].err)

Status2xx == 200..299
Status5xx == 500..599
StatusFrom500 == 500..999

(***************************************************************************)
(* C1.  Whenever an attempt, the first or a later one, receives HTTP 400   *)
(* or 404, the call issues no further transport request and raises a       *)
(* Remote failure with retryable = false, httpStatus that status, and code *)
(* VALIDATION_ERROR for 400, NOT_FOUND for 404.                            *)
(***************************************************************************)
C1_NoRetryAfter400Or404 ==
  \A i \in 1..Attempts :
    RespondedIn(i, {400, 404}) =>
      /\ Requests = i
      /\ Attempts = i
      /\ Raised
      /\ IsApiError(TheCall.result.err)
      /\ TheCall.result.err.retryable = FALSE
      /\ TheCall.result.err.httpStatus = NumInt(TheCall.outcomes[i].value.status)
      /\ TheCall.result.err.code =
           IF TheCall.outcomes[i].value.status = 400
           THEN "VALIDATION_ERROR" ELSE "NOT_FOUND"

\* a 404 that ends the call at its second attempt although a retry was left
C1_Witness ==
  /\ Attempts = 2
  /\ RespondedIn(2, {404})
  /\ client.maxRetries >= 2
  /\ Raised
  /\ Requests = 2

(***************************************************************************)
(* C2.  If the first k attempts (0 <= k <= maxRetries) each end in HTTP    *)
(* 429, HTTP >= 500 or a NETWORK_ERROR of the transport, and attempt k + 1 *)
(* gets a 2xx status, the call returns a successful result built from that *)
(* response after exactly k + 1 transport requests.                        *)
(***************************************************************************)
C2_SuccessAfterRetries ==
  \A k \in 0..client.maxRetries :
    ( /\ Attempts >= k + 1
      /\ \A i \in 1..k : RespondedIn(i, {429} \cup StatusFrom500) \/ FailedNetwork(i)
      /\ RespondedIn(k + 1, Status2xx) ) =>
      /\ Returned
      /\ Requests = k + 1
      /\ Attempts = k + 1
      /\ TheCall.result.value.ok = TRUE
      /\ TheCall.result.value.raw = safeParseJson(TheCall.outcomes[k + 1].value.body)

\* the retry budget is used up by a 429 and a network failure, then a 200 arrives
C2_Witness ==
  /\ client.maxRetries = 2
  /\ Attempts = 3
  /\ RespondedIn(1, {429})
  /\ FailedNetwork(2)
  /\ RespondedIn(3, {200})
  /\ Returned
  /\ Requests = 3

C4_CounterBound ==
  TheCall.pc # "idle" /\ TheCall.sent # <<>> =>
    /\ Requests <= client.maxRetries + 1
    /\ TheCall.attempt <= client.maxRetries
    /\ Requests = TheCall.attempt + (IF TheCall.pc = "sleeping" THEN 0 ELSE 1)

C4_AtMostMaxRetriesPlusOne ==
  [][ /\ C4_CounterBound'
      /\ (TheCall.pc = "idle" /\ TheCall'.pc = "awaiting" => TheCall'.attempt = 0)
      /\ (TheCall.pc # "idle" => TheCall'.attempt >= TheCall.attempt) ]_vars

\* the budget is used up by one status retry and one network retry
C4_Witness ==
  /\ client.maxRetries = 2
  /\ Requests = 3
  /\ RespondedIn(1, {429, 500})
  /\ FailedNetwork(2)
  /\ Attempts = 3
  /\ TheCall.pc = "done"

(***************************************************************************)
(* The classification of section 4.5, as <<code, retryable>>, and what the *)
(* message of a failure is to be for each body the servers send.           *)
(***************************************************************************)
Classification(status) ==
  CASE status = 400 -> <<"VALIDATION_ERROR", FALSE>>
    [] status = 404 -> <<"NOT_FOUND", FALSE>>
    [] status = 429 -> <<"RATE_LIMITED", TRUE>>
    [] status \in StatusFrom500 -> <<"SERVER_ERROR", TRUE>>
    [] OTHER -> <<"UNKNOWN_ERROR", FALSE>>

ServerMessage(body) ==
  CASE body = BodyPingOk -> "OK"
    [] body = BodyNotFound -> "Job not found"
    [] body = BodyRateLimited -> "Too many requests"
    [] body \in {BodyHtml, BodyEmpty} -> "Invalid JSON response"
    [] OTHER -> "Request failed"

LastOutcome == TheCall.outcomes[Attempts]

(***************************************************************************)
(* C5.  A call whose last attempt returned a non-2xx status, final by its  *)
(* classification or retryable with the retries used up, ends by raising a *)
(* Remote failure that carries that last response: its status, the code    *)
(* and retryable flag of its classification, the server's message or the   *)
(* fallback, and the decoded body as raw.                                  *)
(***************************************************************************)
C5_LastResponseReported ==
  ( /\ Attempts >= 1
    /\ LastOutcome.kind = "return"
    /\ LastOutcome.value.status \notin Status2xx
    /\ \/ ~Classification(LastOutcome.value.status)[2]
       \/ Attempts = client.maxRetries + 1 ) =>
    /\ Raised
    /\ TheCall.result.err =
         [t |-> "error", class |-> "ApiError",
          code |-> Classification(LastOutcome.value.status)[1],
          retryable |-> Classification(LastOutcome.value.status)[2],
          httpStatus |-> NumInt(LastOutcome.value.status),
          message |-> ServerMessage(LastOutcome.value.body),
          raw |-> safeParseJson(LastOutcome.value.body)]

\* a 429 with a message, then a network failure, then a 500 with an HTML body:
\* the failure raised is the one of the 500
C5_Witness ==
  /\ client.maxRetries = 2
  /\ Attempts = 3
  /\ RespondedIn(1, {429})
  /\ TheCall.outcomes[1].value.body = BodyRateLimited
  /\ RespondedIn(3, {500})
  /\ Raised
  /\ TheCall.result.err.code = "SERVER_ERROR"
  /\ TheCall.result.err.message = "Invalid JSON response"

(***************************************************************************)
(* C6.  When every attempt fails in the transport, with a NETWORK_ERROR    *)
(* Remote failure or with an exception that is no Remote failure, the call *)
(* issues exactly maxRetries + 1 requests and then raises a NETWORK_ERROR  *)
(* Remote failure, retryable, without HTTP status: the transport's own     *)
(* Remote failure unchanged, any other exception wrapped.                  *)
(***************************************************************************)
C6_NetworkFailuresExhaust ==
  ( /\ Attempts >= 1
    /\ \A i \in 1..Attempts : FailedNetwork(i) \/ FailedOther(i) ) =>
    /\ Requests <= client.maxRetries + 1
    /\ (TheCall.pc = "done") <=> (Attempts = client.maxRetries + 1)
    /\ TheCall.pc = "done" =>
         /\ Requests = client.maxRetries + 1
         /\ Raised
         /\ IsApiError(TheCall.result.err)
         /\ TheCall.result.err.code = "NETWORK_ERROR"
         /\ TheCall.result.err.retryable = TRUE
         /\ TheCall.result.err.httpStatus = Null
         /\ IF IsApiError(LastOutcome.err)
            THEN TheCall.result.err = LastOutcome.err
            ELSE TheCall.result.err.raw = LastOutcome.err

\* three failed attempts, the last one an exception that is no Remote failure
C6_Witness ==
  /\ client.maxRetries = 2
  /\ Attempts = 3
  /\ FailedNetwork(1)
  /\ FailedOther(2)
  /\ FailedOther(3)
  /\ Raised
  /\ TheCall.result.err.code = "NETWORK_ERROR"
  /\ Requests = 3

(***************************************************************************)
(* C7.  The classification is total over the non-2xx statuses and is, in   *)
(* this order: 400 VALIDATION_ERROR, 404 NOT_FOUND (final); 429            *)
(* RATE_LIMITED, >= 500 SERVER_ERROR (retryable); anything else            *)
(* UNKNOWN_ERROR (final).  The Remote failure raised for a response has    *)
(* the code and the flag of its status.                                    *)
(***************************************************************************)
C7_MapErrorIsTheTable ==
  \A s \in (100..999) \ Status2xx :
    /\ mapError(s).code = Classification(s)[1]
    /\ mapError(s).retryable = Classification(s)[2]

C7_ClassifiedByStatus ==
  /\ C7_MapErrorIsTheTable
  /\ ( /\ Raised
       /\ Attempts >= 1
       /\ LastOutcome.kind = "return" ) =>
       /\ IsApiError(TheCall.result.err)
       /\ TheCall.result.err.code = Classification(LastOutcome.value.status)[1]
       /\ TheCall.result.err.retryable = Classification(LastOutcome.value.status)[2]

\* a 4xx status other than 400, 404 and 429 is raised as UNKNOWN_ERROR
C7_Witness ==
  /\ Raised
  /\ Attempts >= 1
  /\ RespondedIn(Attempts, {499})
  /\ TheCall.result.err.code = "UNKNOWN_ERROR"
  /\ TheCall.result.err.retryable = FALSE

(***************************************************************************)
(* What the claims about the public methods speak of.                      *)
(***************************************************************************)
StartsWith(s, p) == Len(s) >= Len(p) /\ SubSeq(s, 1, Len(p)) = p
After(s, p) == SubSeq(s, Len(p) + 1, Len(s))

\* the call threw a Validation failure and no transport request was issued
RejectedLocally ==
  /\ Raised
  /\ TheCall.result.err.t = "error"
  /\ TheCall.result.err.class = "ValidationError"
  /\ TheCall.sent = <<>>
  /\ TheCall.outcomes = <<>>

\* the call issued its requests, at least one, as POSTs without body to path
IssuedTo(action, path) ==
  /\ TheCall.action = action
  /\ Requests >= 1
  /\ \A i \in 1..Requests :
       /\ TheCall.sent[i].method = "POST"
       /\ TheCall.sent[i].url = client.baseUrl \o path
       /\ TheCall.sent[i].body = Undefined

EndPath(status) == "/ping/" \o client.jobKey \o "/end/" \o status

(***************************************************************************)
(* C8.  For every status value other than "success" and "fail" passed to   *)
(* end, end throws a Validation failure and no transport request is        *)
(* issued; for "success" and "fail" the request goes to                    *)
(* /ping/{id}/end/{status}; success() and fail() behave as end("success")  *)
(* and end("fail").  (As claimed: undefined is such a value.)              *)
(***************************************************************************)
C8_EndRejectsEveryOtherStatus ==
  /\ TheCall.op.name = "end" =>
       IF TheCall.op.args[1] \in {Str("success"), Str("fail")}
       THEN IssuedTo("end", EndPath(TheCall.op.args[1].v))
       ELSE RejectedLocally
  /\ TheCall.op.name = "success" => IssuedTo("end", EndPath("success"))
  /\ TheCall.op.name = "fail" => IssuedTo("end", EndPath("fail"))

(***************************************************************************)
(* C8, amended.  For every status value other than "success", "fail" and   *)
(* undefined passed to end, end throws a Validation failure and no         *)
(* transport request is issued; an undefined (or omitted) status takes the *)
(* default "success"; for "success" and "fail" the request goes to         *)
(* /ping/{id}/end/{status}; success() and fail() behave as end("success")  *)
(* and end("fail").                                                        *)
(***************************************************************************)
C8_EndRejectsOtherThanDefault ==
  /\ TheCall.op.name = "end" =>
       IF TheCall.op.args[1] \in {Str("success"), Str("fail")}
       THEN IssuedTo("end", EndPath(TheCall.op.args[1].v))
       ELSE IF TheCall.op.args[1] = Undefined
       THEN IssuedTo("end", EndPath("success"))
       ELSE RejectedLocally
  /\ TheCall.op.name = "success" => IssuedTo("end", EndPath("success"))
  /\ TheCall.op.name = "fail" => IssuedTo("end", EndPath("fail"))

\* end("done") is rejected
C8_Witness ==
  /\ TheCall.op.name = "end"
  /\ TheCall.op.args[1] = Str("done")
  /\ RejectedLocally

(***************************************************************************)
(* C9.  progress throws a Validation failure before any transport request  *)
(* whenever the sequence it is given, as its first argument or as the seq  *)
(* of the options, is negative or not integral; no request whose path ends *)
(* in anything but a non-negative integer sequence is transmitted.         *)
(***************************************************************************)
\* the numbers among the inputs that are negative or not integral
InvalidSeqInputs ==
  {NumInt(-1), Num(15, 10), Num(-5, 10), NaN, Infinity, NegInfinity}

\* the sequence a progress invocation was given, Undefined if none
SeqGiven(op) ==
  IF op.args[1].t = "number" THEN op.args[1]
  ELSE IF op.args[1].t = "object" /\ "seq" \in DOMAIN op.args[1].v
  THEN op.args[1].v.seq
  ELSE Undefined

AllDigits(s) == Len(s) >= 1 /\ \A i \in 1..Len(s) : CharAt(s, i) \in Digits

ProgressPrefix == client.baseUrl \o "/ping/" \o client.jobKey \o "/progress/"

C9_ProgressRejectsInvalidSeq ==
  /\ ( /\ TheCall.op.name = "progress"
       /\ SeqGiven(TheCall.op) \in InvalidSeqInputs ) => RejectedLocally
  /\ \A i \in 1..Requests :
       StartsWith(TheCall.sent[i].url, ProgressPrefix) =>
         AllDigits(After(TheCall.sent[i].url, ProgressPrefix))

\* progress({seq: 1.5, message: "msg"}) is rejected
C9_Witness ==
  /\ TheCall.op.name = "progress"
  /\ TheCall.op.args[1] = Obj([seq |-> Num(15, 10), message |-> Str("msg")])
  /\ RejectedLocally

(***************************************************************************)
(* C10.  Constructing a client with a string that does not match           *)
(* ^[A-Za-z0-9]{8}$ throws a Validation failure, so that no client holds   *)
(* such an identifier; the identifier of a client never changes; every     *)
(* transport request goes to a path /ping/{id}... whose id is 8            *)
(* alphanumeric characters.                                                *)
(***************************************************************************)
\* the job key inputs that match the pattern
MatchingJobKeys == {"abc123de", "ABCXYZ09"}

\* path is /ping/ followed by 8 alphanumeric characters and then ends or goes on with /
PingPath(path) ==
  /\ StartsWith(path, "/ping/")
  /\ Len(path) >= 14
  /\ \A i \in 7..14 : CharAt(path, i) \in Base62
  /\ Len(path) > 14 => CharAt(path, 15) = "/"

C10_JobKeyChecked ==
  /\ client.st = "failed" =>
       /\ client.rejected \notin MatchingJobKeys
       /\ client.error.t = "error"
       /\ client.error.class = "ValidationError"
  /\ client.st = "ok" => client.jobKey \in MatchingJobKeys
  /\ \A c \in CallIds : \A i \in 1..Len(call[c].sent) :
       /\ StartsWith(call[c].sent[i].url, client.baseUrl)
       /\ PingPath(After(call[c].sent[i].url, client.baseUrl))

C10_JobKeyValidatedOnce ==
  [][ /\ C10_JobKeyChecked'
      /\ client.st = "ok" => client'.st = "ok" /\ client'.jobKey = client.jobKey ]_vars

\* the constructor rejects a matching key followed by a line break
C10_Witness ==
  /\ client.st = "failed"
  /\ client.rejected = "abc123de\n"

(***************************************************************************)
(* What the claims about progress speak of: the message an invocation was  *)
(* given and the message a transmitted body carries.                       *)
(***************************************************************************)
\* the message given to progress: that of the options where they hold one,
\* the second argument otherwise, the empty string where neither is given
MessageGiven(op) ==
  IF /\ op.args[1].t = "object"
     /\ "message" \in DOMAIN op.args[1].v
     /\ op.args[1].v.message.t = "string"
  THEN op.args[1].v.message.v
  ELSE IF op.args[2].t = "string" THEN op.args[2].v
  ELSE ""

RECURSIVE TrailingBackslashes(_)
\* the number of backslashes s ends with
TrailingBackslashes(s) ==
  IF Len(s) > 0 /\ CharAt(s, Len(s)) = "\\"
  THEN 1 + TrailingBackslashes(SubSeq(s, 1, Len(s) - 1))
  ELSE 0

\* the character an escape sequence of a JSON string literal stands for
JsonUnescapePair(p) ==
  CASE p = "\\\"" -> "\""
    [] p = "\\\\" -> "\\"
    [] p = "\\n" -> "\n"
    [] OTHER -> p

RECURSIVE JsonUnescape(_)
\* the string a JSON string literal (without its quotes) denotes; the
\* literal is halved between two escape sequences
JsonUnescape(s) ==
  IF Len(s) <= 1 THEN s
  ELSE IF Len(s) = 2
  THEN IF CharAt(s, 1) = "\\" THEN JsonUnescapePair(s) ELSE s
  ELSE LET h0 == Len(s) \div 2
           h == IF TrailingBackslashes(SubSeq(s, 1, h0)) % 2 = 1
                THEN h0 + 1 ELSE h0
       IN  JsonUnescape(SubSeq(s, 1, h)) \o JsonUnescape(SubSeq(s, h + 1, Len(s)))

MessageBodyPrefix == "{\"message\":\""
MessageBodySuffix == "\"}"

\* req carries a body that is a JSON object with the one member "message"
CarriesMessageOnly(req) ==
  /\ req.body.t = "string"
  /\ Len(req.body.v) >= Len(MessageBodyPrefix) + Len(MessageBodySuffix)
  /\ StartsWith(req.body.v, MessageBodyPrefix)
  /\ SubSeq(req.body.v, Len(req.body.v) - 1, Len(req.body.v)) = MessageBodySuffix

\* the message that body carries
TransmittedMessage(req) ==
  JsonUnescape(SubSeq(req.body.v, Len(MessageBodyPrefix) + 1, Len(req.body.v) - 2))

\* a progress invocation whose sequence, if it has one, is valid
ProgressAccepted ==
  /\ TheCall.op.name = "progress"
  /\ SeqGiven(TheCall.op) \notin InvalidSeqInputs

(***************************************************************************)
(* C11.  For every message given to progress (as second argument or as the *)
(* message of the options) with a valid or absent sequence, the request is *)
(* issued and not rejected; where the message is longer than 255           *)
(* characters the transmitted message is exactly 255 characters long and   *)
(* is the first 255 characters of the message; where it is 255 characters  *)
(* or shorter the transmitted message is the message unchanged.            *)
(***************************************************************************)
C11_MessageTruncatedTo255 ==
  ProgressAccepted =>
    /\ ~RejectedLocally
    /\ Requests >= 1
    /\ \A i \in 1..Requests :
         /\ CarriesMessageOnly(TheCall.sent[i])
         /\ LET given == MessageGiven(TheCall.op)
                sentMsg == TransmittedMessage(TheCall.sent[i])
            IN  IF Len(given) > 255
                THEN Len(sentMsg) = 255 /\ StartsWith(given, sentMsg)
                ELSE sentMsg = given

\* progress(50, m) with m of 300 characters has transmitted 255 of them
C11_Witness ==
  /\ TheCall.op.name = "progress"
  /\ TheCall.op.args = <<NumInt(50), Str(Text300)>>
  /\ Requests >= 1
  /\ TransmittedMessage(TheCall.sent[1]) = Text255

(***************************************************************************)
(* C12.  For every non-negative integer n and message m, progress(n, m)    *)
(* and progress({seq: n, message: m}) send identical transport requests    *)
(* (same method, same URL with path /ping/{id}/progress/{n}, same headers, *)
(* body and timeout); for options without a message the message falls back *)
(* to the second argument, so that progress({seq: n}, m) and               *)
(* progress({}, m) send what progress(n, m) and progress(null, m) send.    *)
(***************************************************************************)
\* the numbers among the inputs that are non-negative integers
ValidSeqInputs == {NumInt(0), NumInt(50)}

\* the first transport request of a call record
FirstRequest(cs) == cs.sent[1]

\* every request of the call is req, and there is one at least
AlwaysSends(req) ==
  /\ Requests >= 1
  /\ \A i \in 1..Requests : TheCall.sent[i] = req

C12_PositionalAndOptionsAgree ==
  TheCall.op.name = "progress" =>
    LET a == TheCall.op.args
    IN  /\ (a[1] \in ValidSeqInputs /\ a[2].t = "string") =>
             /\ AlwaysSends(FirstRequest(
                  progressCall(client, Obj([seq |-> a[1], message |-> a[2]]), Undefined)))
             /\ TheCall.sent[1].method = "POST"
             /\ TheCall.sent[1].url = ProgressPrefix \o NatToString(a[1].n)
        /\ ( /\ a[1].t = "object"
             /\ DOMAIN a[1].v = {"seq", "message"}
             /\ a[1].v.seq \in ValidSeqInputs
             /\ a[1].v.message.t = "string" ) =>
             /\ AlwaysSends(FirstRequest(
                  progressCall(client, a[1].v.seq, a[1].v.message)))
             /\ TheCall.sent[1].url = ProgressPrefix \o NatToString(a[1].v.seq.n)
        /\ ( /\ a[1].t = "object"
             /\ DOMAIN a[1].v = {"seq"}
             /\ a[1].v.seq \in ValidSeqInputs ) =>
             AlwaysSends(FirstRequest(progressCall(client, a[1].v.seq, a[2])))
        /\ (a[1].t = "object" /\ DOMAIN a[1].v = {}) =>
             AlwaysSends(FirstRequest(progressCall(client, Null, a[2])))

\* progress({seq: 50, message: "msg"}) has sent what progress(50, "msg") sends
C12_Witness ==
  /\ TheCall.op.name = "progress"
  /\ TheCall.op.args[1] = Obj([seq |-> NumInt(50), message |-> Str("msg")])
  /\ Requests >= 1
  /\ TheCall.sent[1] = FirstRequest(progressCall(client, NumInt(50), Str("msg")))
  /\ TheCall.sent[1].body = Str("{\"message\":\"msg\"}")

(***************************************************************************)
(* C13.  The requests of an accepted progress call go to                   *)
(* /ping/{id}/progress/{seq} exactly when a seq was given (as first        *)
(* argument or in the options) and to /ping/{id}/progress exactly when     *)
(* none was (null, omitted, or options without seq); in both cases the     *)
(* body is the JSON object whose only member is the message, cut to 255    *)
(* characters and possibly empty, and holds no sequence; the requests of   *)
(* ping, start, end, success and fail carry no body.                       *)
(***************************************************************************)
\* the first 255 characters of m, written out
First255(m) == IF Len(m) > 255 THEN SubSeq(m, 1, 255) ELSE m

SentByBodilessMethod == TheCall.op.name \in {"ping", "start", "end", "success", "fail"}

C13_ProgressPathAndBody ==
  /\ ProgressAccepted =>
       \A i \in 1..Requests :
         /\ TheCall.sent[i].url =
              IF SeqGiven(TheCall.op) \in ValidSeqInputs
              THEN ProgressPrefix \o NatToString(SeqGiven(TheCall.op).n)
              ELSE client.baseUrl \o "/ping/" \o client.jobKey \o "/progress"
         /\ TheCall.sent[i].body =
              Str(MessageBodyPrefix
                    \o JsonEscape(First255(MessageGiven(TheCall.op)))
                    \o MessageBodySuffix)
  /\ SentByBodilessMethod =>
       \A i \in 1..Requests : TheCall.sent[i].body = Undefined

\* progress({message: "only"}) goes to /ping/{id}/progress with the message
C13_Witness ==
  /\ TheCall.op.name = "progress"
  /\ TheCall.op.args[1] = Obj([message |-> Str("only")])
  /\ Requests >= 1
  /\ TheCall.sent[1].url = client.baseUrl \o "/ping/" \o client.jobKey \o "/progress"
  /\ TheCall.sent[1].body = Str("{\"message\":\"only\"}")

(***************************************************************************)
(* What the claim about the PingResult speaks of.                          *)
(***************************************************************************)
\* the object a response body decodes to: the parsed value where it is an
\* object or an array, the synthetic object where the body is no JSON, the
\* empty object for any other JSON value
DecodedObject(body) ==
  LET r == JSONParse(body)
  IN  IF r.kind = "throw" THEN Obj([message |-> Str("Invalid JSON response")])
      ELSE IF r.value.t \in {"object", "array"} THEN r.value
      ELSE Obj(EmptyFields)

\* member f of the decoded object p is present and of type ty
WellFormed(p, f, ty) == p.t = "object" /\ f \in DOMAIN p.v /\ p.v[f].t = ty

\* member f of the decoded object p is absent or null
Absent(p, f) ==
  ~(p.t = "object" /\ f \in DOMAIN p.v) \/ p.v[f].t \in {"undefined", "null"}

\* the last attempt ended with a 2xx response
LastIs2xx == Attempts >= 1 /\ RespondedIn(Attempts, Status2xx)

\* the call returned, at once, a PingResult that is ok and whose fields
\* other than processingTimeMs are those of p or their defaults
MappedFrom(p) ==
  /\ Returned
  /\ Requests = Attempts
  /\ LET res == TheCall.result.value
     IN  /\ res.ok = TRUE
         /\ res.action = IF WellFormed(p, "action", "string")
                         THEN p.v.action.v ELSE TheCall.op.name
         /\ res.jobKey = IF WellFormed(p, "job_key", "string")
                         THEN p.v.job_key.v ELSE client.jobKey
         /\ res.timestamp = IF WellFormed(p, "timestamp", "string")
                            THEN p.v.timestamp.v ELSE ""
         /\ res.nextExpected = IF WellFormed(p, "next_expected", "string")
                               THEN p.v.next_expected ELSE Null
         /\ res.raw = p

(***************************************************************************)
(* C14.  Every 2xx response is mapped into a PingResult with ok = true,    *)
(* without raising and without retrying, whatever its body (no JSON, a     *)
(* JSON value that is no object, an object with missing or wrongly typed   *)
(* members): action, job_key, timestamp and next_expected pass through     *)
(* where they are strings and default to the invoking action, the          *)
(* configured identifier, "" and null otherwise; processing_time_ms passes *)
(* through where it is a number and is zero otherwise; raw is the decoded  *)
(* object.  (As claimed: zero for every wrongly typed processing_time_ms.) *)
(***************************************************************************)
C14_MalformedDurationIsZero ==
  LastIs2xx =>
    LET p == DecodedObject(LastOutcome.value.body)
    IN  /\ MappedFrom(p)
        /\ TheCall.result.value.processingTimeMs =
             IF WellFormed(p, "processing_time_ms", "number")
             THEN p.v.processing_time_ms ELSE NumInt(0)

\* Number(x) for the wrongly typed durations among the bodies
Coerced(x) ==
  CASE x = Str("12") -> NumInt(12)
    [] x = Bool(TRUE) -> NumInt(1)
    [] x = Str("abc") -> NaN

(***************************************************************************)
(* C14, amended.  As above, but processing_time_ms passes through where it *)
(* is a number, is zero where it is absent or null, and is otherwise the   *)
(* numeric coercion of the member: 12 for "12", 1 for true, NaN for "abc". *)
(***************************************************************************)
C14_MalformedDurationIsCoerced ==
  LastIs2xx =>
    LET p == DecodedObject(LastOutcome.value.body)
    IN  /\ MappedFrom(p)
        /\ TheCall.result.value.processingTimeMs =
             IF WellFormed(p, "processing_time_ms", "number")
             THEN p.v.processing_time_ms
             ELSE IF Absent(p, "processing_time_ms") THEN NumInt(0)
             ELSE Coerced(p.v.processing_time_ms)

\* a 2xx response whose members are all wrongly typed is mapped to the
\* defaults, with NaN as its duration
C14_Witness ==
  /\ LastIs2xx
  /\ LastOutcome.value.body = BodyWrongTypes
  /\ Returned
  /\ TheCall.result.value.timestamp = ""
  /\ TheCall.result.value.nextExpected = Null
  /\ TheCall.result.value.processingTimeMs = NaN

(***************************************************************************)
(* C15.  When the transport call of an attempt raises a Remote failure     *)
(* whose code is not NETWORK_ERROR, that attempt is the last: the call     *)
(* raises that very failure, unchanged, no further request is issued and   *)
(* no backoff is waited for, also where attempts remain and where the      *)
(* failure's retryable flag is true.                                       *)
(***************************************************************************)
\* the transport call of attempt i raised a Remote failure other than NETWORK_ERROR
TransportRaisedFinal(i) ==
  /\ TheCall.outcomes[i].kind = "throw"
  /\ IsApiError(TheCall.outcomes[i].err)
  /\ TheCall.outcomes[i].err.code # "NETWORK_ERROR"

C15_TransportFailureRethrown ==
  \A i \in 1..Attempts :
    TransportRaisedFinal(i) =>
      /\ i = Attempts
      /\ Raised
      /\ TheCall.result.err = TheCall.outcomes[i].err
      /\ Requests = i
      /\ Len(TheCall.waits) = i - 1

\* with retries left, the transport raises a retryable RATE_LIMITED failure
\* on the first attempt and the call raises it at once
C15_Witness ==
  /\ client.maxRetries >= 1
  /\ Attempts = 1
  /\ TransportRaisedFinal(1)
  /\ TheCall.outcomes[1].err.retryable = TRUE
  /\ Raised
  /\ TheCall.result.err = TheCall.outcomes[1].err
  /\ Requests = 1
  /\ TheCall.waits = <<>>

(***************************************************************************)
(* C16.  Within one call every attempt sends the same request: method      *)
(* POST, the URL made of the client's base URL (which ends in no slash)    *)
(* and the path of the action, the three headers Content-Type, Accept and  *)
(* User-Agent, the serialized body of the call or none, and the configured *)
(* timeout; no step of a call changes its URL, its payload or the client,  *)
(* and the attempt counter only ever goes up by one.                       *)
(***************************************************************************)
\* the request every attempt of the call sends
TheRequest ==
  [method |-> "POST",
   url |-> TheCall.url,
   headers |-> [contentType |-> "application/json",
                accept |-> "application/json",
                userAgent |-> client.userAgent],
   body |-> TheCall.payload,
   timeoutMs |-> client.timeoutMs]

EveryAttemptSendsTheRequest ==
  /\ \A i \in 1..Requests : TheCall.sent[i] = TheRequest
  /\ Requests >= 1 =>
       /\ client.baseUrl # ""
       /\ CharAt(client.baseUrl, Len(client.baseUrl)) # "/"
       /\ StartsWith(TheCall.url, client.baseUrl \o "/ping/")

C16_SameRequestEveryAttempt ==
  [][ /\ EveryAttemptSendsTheRequest'
      /\ client.st = "ok" => client' = client
      /\ TheCall.pc # "idle" =>
           /\ TheCall'.url = TheCall.url
           /\ TheCall'.payload = TheCall.payload
           /\ TheCall'.action = TheCall.action
           /\ TheCall'.attempt \in {TheCall.attempt, TheCall.attempt + 1}
           /\ Len(TheCall'.sent) >= Requests
           /\ SubSeq(TheCall'.sent, 1, Requests) = TheCall.sent ]_vars

\* a client configured with base URL http://localhost:8080// has sent the
\* same progress request, body included, twice
C16_Witness ==
  /\ client.st = "ok"
  /\ client.baseUrl = "http://localhost:8080"
  /\ TheCall.op.name = "progress"
  /\ Requests = 2
  /\ TheCall.sent[1] = TheCall.sent[2]
  /\ TheCall.sent[2].url = "http://localhost:8080/ping/abc123de/progress/50"
  /\ TheCall.sent[2].body = Str("{\"message\":\"msg\"}")

(***************************************************************************)
(* What the claim about the backoff speaks of.                             *)
(***************************************************************************)
\* the waits of the call, in order: Waits[k] precedes retry number k
Waits == TheCall.waits

RECURSIVE BasePart(_)
\* the configured backoff base, doubled for each retry after the first
BasePart(k) == IF k <= 1 THEN client.retryBackoffMs ELSE 2 * BasePart(k - 1)

\* what wait number k adds to its base part
Jitter(k) == Waits[k] - BasePart(k)

(***************************************************************************)
(* C17.  The wait before retry number k is backoffBase * 2^(k-1) plus a    *)
(* jitter; the jitter lies in (0, jitterBound], that is, it is above zero  *)
(* and at most jitterBound.  (As claimed.)                                 *)
(***************************************************************************)
C17_JitterAboveZero ==
  \A k \in 1..Len(Waits) :
    /\ Jitter(k) > 0
    /\ Jitter(k) <= client.retryJitterMs

(***************************************************************************)
(* C17, amended.  The wait before retry number k is backoffBase * 2^(k-1)  *)
(* plus a jitter; the jitter is a whole number from 0, included, up to     *)
(* jitterBound (up to 0 where jitterBound is negative); so the wait is     *)
(* never below its base part, and without jitter each wait is twice the    *)
(* one before it, uncapped.                                                *)
(***************************************************************************)
C17_JitterFromZeroToBound ==
  \A k \in 1..Len(Waits) :
    /\ Jitter(k) >= 0
    /\ Jitter(k) <= Max(0, client.retryJitterMs)
    /\ Waits[k] >= BasePart(k)
    /\ (k > 1 /\ client.retryJitterMs <= 0) => Waits[k] = 2 * Waits[k - 1]

\* with the default backoff of 250 ms and jitter bound of 100 ms, the first
\* wait has no jitter at all and the second the whole of it
C17_Witness ==
  /\ client.st = "ok"
  /\ client.retryBackoffMs = DefaultRetryBackoffMs
  /\ client.retryJitterMs = DefaultRetryJitterMs
  /\ Len(Waits) = 2
  /\ Waits[1] = DefaultRetryBackoffMs
  /\ Waits[2] = 2 * DefaultRetryBackoffMs + DefaultRetryJitterMs

(***************************************************************************)
(* C18.  The attempts of a call are strictly sequential: at every moment   *)
(* the call has at most one transport request in flight; a request is      *)
(* issued only when every earlier one has resolved or failed; between      *)
(* attempt n and attempt n + 1 exactly one backoff wait elapses, started   *)
(* when attempt n ends and carrying retry index n; no wait precedes the    *)
(* first attempt or follows the last one.                                  *)
(***************************************************************************)
\* the transport requests issued and not yet resolved or failed
InFlight == Requests - Attempts

SequentialSoFar ==
  /\ InFlight \in {0, 1}
  /\ InFlight = 1 <=> TheCall.pc = "awaiting"
  /\ TheCall.attempt = Len(Waits)
  /\ Requests = 0 => Waits = <<>>
  /\ TheCall.pc = "sleeping" => Requests >= 1 /\ Len(Waits) = Requests
  /\ (TheCall.pc \in {"awaiting", "done"} /\ Requests >= 1) =>
       Len(Waits) = Requests - 1

C18_AttemptsSequential ==
  [][ /\ SequentialSoFar'
      /\ Len(TheCall'.sent) > Requests =>
           /\ Len(TheCall'.sent) = Requests + 1
           /\ InFlight = 0
           /\ TheCall'.waits = Waits
           /\ Requests >= 1 => TheCall.pc = "sleeping" /\ Len(Waits) = Requests
      /\ Len(TheCall'.waits) > Len(Waits) =>
           /\ Len(TheCall'.waits) = Len(Waits) + 1
           /\ TheCall.pc = "awaiting"
           /\ TheCall'.pc = "sleeping"
           /\ Len(TheCall'.outcomes) = Requests
           /\ TheCall'.sent = TheCall.sent
           /\ TheCall'.attempt = Requests ]_vars

\* the third attempt is in flight after two attempts that ended and two waits
C18_Witness ==
  /\ TheCall.pc = "awaiting"
  /\ Requests = 3
  /\ Attempts = 2
  /\ Len(Waits) = 2

(***************************************************************************)
(* Two calls on one client: both are invoked, and their transport          *)
(* responses and backoff timers arrive in any order.                       *)
(***************************************************************************)
InitConcurrent ==
  /\ client \in {NewPingClient("abc123de", [maxRetries |-> m, retryJitterMs |-> 0]) :
                   m \in 0..MaxRetriesBound}
  /\ call = [c \in CallIds |-> IdleCall]

NextConcurrent ==
  \E c \in CallIds :
    \/ ping(c)
    \/ start(c)
    \/ \E o \in FewOutcomes, r \in RandomDraws : HttpSettles(c, o, r)
    \/ TimerFires(c)

SpecConcurrent == InitConcurrent /\ [][NextConcurrent]_vars

\* the call record right after the invocation op
InvokedAlone(op) == IF op.name = "ping" THEN pingCall(client) ELSE startCall(client)

RECURSIVE Alone(_, _, _, _)
\* the call record a call reaches from cs when it runs by itself and the
\* outcomes outs arrive for its requests, its waits being ws; asleep tells
\* whether the timer of its last wait is yet to fire
Alone(cs, outs, ws, asleep) ==
  IF Len(cs.outcomes) >= Len(outs) THEN cs
  ELSE LET o == outs[Len(cs.outcomes) + 1]
           r == LoopBody(client, cs, o)
           got == [cs EXCEPT !.outcomes = Append(cs.outcomes, o)]
           slept == [got EXCEPT !.pc = "sleeping",
                                !.attempt = cs.attempt + 1,
                                !.waits = Append(cs.waits, ws[cs.attempt + 1])]
       IN  IF r.kind # "continue"
           THEN [got EXCEPT !.pc = "done", !.result = r]
           ELSE IF Len(got.outcomes) = Len(outs) /\ asleep THEN slept
           ELSE Alone(IssueRequest(client, slept), outs, ws, asleep)

\* call c is where it would be had it run by itself on its own outcomes
OwnCourse(c) ==
  /\ call[c].attempt = Len(call[c].waits)
  /\ call[c].attempt <= client.maxRetries
  /\ Len(call[c].sent) <= client.maxRetries + 1
  /\ call[c].pc # "idle" =>
       /\ \A i \in 1..Len(call[c].sent) :
            call[c].sent[i] = InvokedAlone(call[c].op).sent[1]
       /\ call[c] = Alone(InvokedAlone(call[c].op), call[c].outcomes,
                          call[c].waits, call[c].pc = "sleeping")

(***************************************************************************)
(* C19.  Calls running concurrently on one client do not interfere: under  *)
(* every interleaving each call has its own attempt counter, at most       *)
(* maxRetries + 1 requests, always its own request, and the state and      *)
(* outcome it would have had by itself on the responses to its own         *)
(* requests; a step of one call changes nothing of the other.              *)
(***************************************************************************)
C19_CallsDoNotInterfere ==
  /\ [](\A c \in CallIds : OwnCourse(c))
  /\ [][ \A c, d \in CallIds :
           (c # d /\ call'[c] # call[c]) => call'[d] = call[d] ]_vars

\* while the start call, after two failed attempts, waits for its second
\* retry, the ping call has its first request in flight
C19_Witness ==
  /\ call["c1"].op.name = "ping"
  /\ call["c1"].pc = "awaiting"
  /\ call["c1"].attempt = 0
  /\ call["c2"].op.name = "start"
  /\ call["c2"].pc = "sleeping"
  /\ call["c2"].attempt = 2
  /\ Len(call["c2"].sent) = 2

(***************************************************************************)
(* A constructed client and one call, under the assumptions that every     *)
(* transport request eventually resolves or fails and that every backoff   *)
(* timer eventually fires (await resumes the loop once the promise it      *)
(* waits for settles).                                                     *)
(***************************************************************************)
\* one transport outcome of each kind: success, final statuses, retryable
\* statuses, a failure of fetch, what an injected transport throws
LiveOutcomes ==
  {FetchHttpClientRequest(Return(r)) :
     r \in {HttpResponse(200, BodyPingOk), HttpResponse(404, BodyNotFound),
            HttpResponse(429, BodyRateLimited), HttpResponse(500, BodyHtml)}}
  \cup {FetchHttpClientRequest(Throw(ErrorObj("TypeError", "fetch failed")))}
  \cup {Throw(e) : e \in CustomThrows}

TransportSettles == \E o \in LiveOutcomes, r \in RandomDraws : HttpSettles("c1", o, r)

NextLive ==
  \/ ping("c1")
  \/ \E s \in EndStatusInputs : end("c1", s)
  \/ TransportSettles
  \/ TimerFires("c1")

Fairness ==
  /\ WF_vars(TransportSettles)
  /\ WF_vars(TimerFires("c1"))

SpecLive == InitRetry /\ [][NextLive]_vars /\ Fairness

\* the call has been invoked
Invoked == TheCall.pc # "idle"

\* the call has returned a PingResult or raised a Validation or Remote failure
Finished ==
  \/ Returned /\ TheCall.result.value.ok = TRUE
  \/ /\ Raised
     /\ TheCall.result.err.t = "error"
     /\ TheCall.result.err.class \in {"ValidationError", "ApiError"}

(***************************************************************************)
(* C20.  Every call that is invoked eventually finishes, returning a       *)
(* PingResult or raising a Validation or Remote failure, whatever the      *)
(* transport outcomes are, given that maxRetries is a non-negative         *)
(* integer, every transport request eventually resolves or fails and       *)
(* every backoff timer eventually fires.                                   *)
(***************************************************************************)
C20_EveryCallFinishes == Invoked ~> Finished

\* a call has finished by raising after it used up its retries on a rate
\* limit and a network failure
C20_Witness ==
  /\ client.maxRetries = 2
  /\ TheCall.op.name = "end"
  /\ Attempts = 3
  /\ RespondedIn(1, {429})
  /\ FailedNetwork(2)
  /\ Len(Waits) = 2
  /\ Finished
  /\ Raised

====
